---- MODULE Spec2Model ----
(***************************************************************************)
(* A model of mcp_latex_server.py: the LaTeXServer tool handlers that      *)
(* share process-wide state (the current working directory, the workspace  *)
(* root), the asyncio event loop that runs them, the file system they      *)
(* look at and the external processes compile_latex waits for.             *)
(***************************************************************************)
EXTENDS Integers, Sequences, FiniteSets, TLC

\* ------------------------------------------------------------------ bounds

\* Seconds of wall time that pass in one Tick of a waiting subprocess.run.
TickStep == 30

\* timeout=60 of both engine passes, timeout=30 of the bibtex pass.
EngineTimeout == 60
BibTimeout == 30

\* The asyncio tasks the server runs call_tool in, one per request in flight.
Tasks == {"t1", "t2"}

\* ------------------------------------------------------------------- paths

\* A pathlib.Path: absolute or relative, and its components.
P(a, c) == [abs |-> a, comps |-> c]

\* None (and the empty string, which `if path:` treats alike).
NoPath == P(FALSE, <<>>)

\* pathlib's `/`: an absolute right operand replaces the left one.
Join(a, b) == IF b.abs THEN b ELSE P(a.abs, a.comps \o b.comps)

Front(s) == SubSeq(s, 1, Len(s) - 1)

Last(s) == s[Len(s)]

\* Path.parent and Path.name
Parent(p) == P(p.abs, Front(p.comps))

\* Path.suffix of the file names the model uses
Suffix(p) ==
    CASE Last(p.comps) = "a.tex" -> ".tex"
      [] Last(p.comps) = "n.txt" -> ".txt"
      [] Last(p.comps) = "r.bib" -> ".bib"
      [] Last(p.comps) = "a.pdf" -> ".pdf"
      [] OTHER -> ""

\* Path.with_suffix('.pdf')
WithPdfSuffix(p) ==
    IF Suffix(p) = ".tex" THEN P(p.abs, Front(p.comps) \o <<"a.pdf">>) ELSE p

IsPrefix(s, t) == Len(s) <= Len(t) /\ SubSeq(t, 1, Len(s)) = s

Prefixes(s) == {SubSeq(s, 1, n) : n \in 0..Len(s)}

\* The location a path denotes when the working directory is d: what the
\* operating system does with a relative path.
Locate(d, p) == IF p.abs THEN p.comps ELSE d \o p.comps

\* ------------------------------------------------------------------ inputs

ToolNames ==
    {"create_latex_file", "read_latex_file", "edit_latex_file", "compile_latex",
     "validate_latex_syntax", "list_latex_files", "clean_latex_auxiliary",
     "get_latex_template", "change_workspace"}

\* The tools of which only the result's shape is modelled.
SimpleTools == ToolNames \ {"compile_latex", "change_workspace"}

\* filename arguments: two bare names and an absolute path
Filenames == {P(FALSE, <<"a.tex">>), P(FALSE, <<"n.txt">>), P(TRUE, <<"h", "v", "a.tex">>)}

\* path arguments: none, a relative and an absolute directory
Hints == {NoPath, P(FALSE, <<"s">>), P(TRUE, <<"h", "v">>)}

\* The (filename, path) pairs the requests use: a source file of the root, a
\* file of the root that is no source, both of them in a directory that does
\* not exist, a source file of another directory, an absolute filename.
Targets ==
    {<<P(FALSE, <<"a.tex">>), NoPath>>, <<P(FALSE, <<"n.txt">>), NoPath>>,
     <<P(FALSE, <<"a.tex">>), P(FALSE, <<"s">>)>>, <<P(FALSE, <<"n.txt">>), P(FALSE, <<"s">>)>>,
     <<P(FALSE, <<"a.tex">>), P(TRUE, <<"h", "v">>)>>,
     <<P(TRUE, <<"h", "v", "a.tex">>), P(FALSE, <<"s">>)>>}

Engines == {"pdflatex", "latexmk"}

NewWorkspaces == {P(FALSE, <<"n">>), P(TRUE, <<"h", "v">>), P(TRUE, <<"h", "w", "a.tex">>)}

\* --workspace at startup: an absolute or a relative directory
StartupRoots == {P(TRUE, <<"h", "w">>), P(FALSE, <<"w">>)}

StartupCwd == <<"h">>

ExitCodes == {0, 1}

NoRequest ==
    [name |-> "", filename |-> NoPath, path |-> NoPath, engine |-> "",
     bibtex |-> FALSE, new_workspace |-> NoPath, args_ok |-> TRUE]

CompileRequests ==
    {[NoRequest EXCEPT !.name = "compile_latex", !.filename = x[1], !.path = x[2],
                       !.engine = e, !.bibtex = b]
        : x \in Targets, e \in Engines, b \in BOOLEAN}

WorkspaceRequests ==
    {[NoRequest EXCEPT !.name = "change_workspace", !.new_workspace = w]
        : w \in NewWorkspaces}

\* A tool whose body is not modelled, a name that is no tool, and an argument
\* map that lacks the required filename.
OtherRequests ==
    {[NoRequest EXCEPT !.name = n] : n \in {"read_latex_file", "delete_latex_file"}}
    \cup {[NoRequest EXCEPT !.name = "compile_latex", !.args_ok = FALSE]}

Requests == CompileRequests \cup WorkspaceRequests \cup OtherRequests

\* ------------------------------------------------------------------- state

VARIABLES
    cwd,            \* os.getcwd(): the process-wide working directory
    workspace_dir,  \* self.workspace_dir
    dirs,           \* the directories that exist
    files,          \* the files that exist
    pc,             \* where each task is
    req,            \* the (name, arguments) each task was called with
    file_path,      \* compile_latex's local of that name
    original_cwd,   \* compile_latex's local of that name
    results,        \* compile_latex's local of that name
    stage,          \* the subprocess.run a task is at: pass1, bib, pass2
    elapsed,        \* seconds the task has waited for its child process
    children,       \* the child processes of each task still running
    exc,            \* the exception unwinding through compile_latex's finally
    ret,            \* what call_tool returned to the caller
    hist,           \* per call: what happened (read by the properties only)
    roots,          \* the workspace roots set so far (read by the properties only)
    content,        \* validate_latex_syntax: the text read from the file
    report          \* validate_latex_syntax: the dictionary it returned

\* The variables of the server and its calls.
server ==
    <<cwd, workspace_dir, dirs, files, pc, req, file_path, original_cwd, results,
      stage, elapsed, children, exc, ret, hist, roots>>

\* The variables of one validation.
validation == <<content, report>>

vars == <<server, validation>>

supported_engines_and_latexmk ==
    {"pdflatex", "lualatex", "xelatex", "bibtex", "biber", "latexmk"}

\* self.supported_engines
supported_engines == {"pdflatex", "lualatex", "xelatex", "bibtex", "biber"}

NoHist ==
    [cwd_before |-> <<>>, cwd_after |-> <<>>, src_dir |-> <<>>, found |-> FALSE,
     bib_in_src |-> FALSE, spawned |-> <<>>, codes |-> <<>>, chdirs |-> <<>>,
     timed_out |-> FALSE, raised |-> "", escaped |-> FALSE,
     scanned |-> <<>>, pdf_tested |-> <<>>]

EmptyDict == <<>>

\* No validation has returned.
NoReport == EmptyDict

Init ==
    /\ cwd = StartupCwd
    /\ workspace_dir \in StartupRoots
    /\ dirs = Prefixes(<<"h", "w">>) \cup Prefixes(<<"h", "v">>)
    /\ files = {<<"h", "w", "a.tex">>, <<"h", "w", "n.txt">>, <<"h", "w", "r.bib">>,
                <<"h", "w", "a.pdf">>, <<"h", "v", "a.tex">>}
    /\ pc = [t \in Tasks |-> "idle"]
    /\ req = [t \in Tasks |-> NoRequest]
    /\ file_path = [t \in Tasks |-> NoPath]
    /\ original_cwd = [t \in Tasks |-> <<>>]
    /\ results = [t \in Tasks |-> EmptyDict]
    /\ stage = [t \in Tasks |-> ""]
    /\ elapsed = [t \in Tasks |-> 0]
    /\ children = [t \in Tasks |-> {}]
    /\ exc = [t \in Tasks |-> ""]
    /\ ret = [t \in Tasks |-> EmptyDict]
    /\ hist = [t \in Tasks |-> NoHist]
    /\ roots = [startup |-> workspace_dir, changed |-> FALSE, last_ok |-> <<>>,
                failed |-> FALSE, before |-> workspace_dir]
    /\ content = <<>>
    /\ report = NoReport

\* ------------------------------------------------------------ dictionaries

\* results[k] = v
Put(d, k, v) == (k :> v) @@ d

Has(d, k) == k \in DOMAIN d

\* {"error": f"<msg>{file_path}"} or {"error": f"<msg>{str(e)}"}
Err(msg, path, cause) == "error" :> [msg |-> msg, path |-> path, cause |-> cause]

\* What an operation hands to call_tool: a dictionary, or an exception.
Returns(d) == [raised |-> "", value |-> d]

Raises(e) == [raised |-> e, value |-> EmptyDict]

\* ------------------------------------------------------------ the helpers

get_full_path(root, filename, path) ==
    IF path # NoPath
    THEN IF path.abs
         THEN Join(path, filename)
         ELSE Join(Join(root, path), filename)
    ELSE Join(root, filename)

\* Path.exists(), which the operating system answers from the working directory
exists(d, p) == Locate(d, p) \in (files \cup dirs)

\* list(directory.glob('*.bib'))
bib_files(d, p) ==
    {f \in files : Front(f) = Locate(d, p) /\ Suffix(P(TRUE, f)) = ".bib"}

PreconditionsEngineFirst(found, suffix, engine) ==
    IF engine \notin supported_engines THEN "bad_engine"
    ELSE IF ~found THEN "not_found"
    ELSE IF suffix # ".tex" THEN "bad_extension"
    ELSE "ok"

\* The three checks of compile_latex, in the code's order.
Preconditions(found, suffix, engine) ==
    IF ~found THEN "not_found"
    ELSE IF suffix # ".tex" THEN "bad_extension"
    ELSE IF engine \notin supported_engines THEN "bad_engine"
    ELSE "ok"

PreconditionError(pre, fp, engine) ==
    CASE pre = "not_found" -> Err("File does not exist: ", fp, "")
      [] pre = "bad_extension" -> Err("File must have .tex extension", NoPath, "")
      [] OTHER -> Err("Unsupported engine: ", NoPath, engine)

\* timeout=60 / timeout=30 of the three subprocess.run calls
Timeout(st) == IF st = "bib" THEN BibTimeout ELSE EngineTimeout

NeverTimedOut(e, limit) == FALSE

\* subprocess.run raises TimeoutExpired once the timeout has passed
TimedOut(e, limit) == e >= limit

\* subprocess.run kills the child and waits for it before it re-raises
KillChild(running, st) == running \ {st}

Min(a, b) == IF a < b THEN a ELSE b

NotBlocking == FALSE

\* subprocess.run is a blocking call: compile_latex holds the event loop's
\* thread while it waits (it has no await of its own).
Blocking == TRUE

\* The task that occupies the event loop's thread: one in the middle of
\* compile_latex, or one whose call_tool is returning its result.
HoldsLoop(t) ==
    \/ pc[t] \in {"spawn", "finish", "finally", "done"}
    \/ pc[t] = "wait" /\ Blocking

\* The event loop can run a step of t: no other task is in the middle of one.
Turn(t) == \A s \in Tasks \ {t} : ~HoldsLoop(s)

call_tool_no_except(o) == [escaped |-> o.raised # "", value |-> o.value]

\* call_tool's try/except around the dispatch: the operation's dictionary, or
\* {"error": str(e)} for an exception the operation let through.
call_tool(o) ==
    IF o.raised # ""
    THEN [escaped |-> FALSE, value |-> Err("", NoPath, o.raised)]
    ELSE [escaped |-> FALSE, value |-> o.value]

\* The call of task t ends with outcome o; h is what the call did, and d the
\* working directory it leaves.
Return(t, o, h, d) ==
    /\ pc' = [pc EXCEPT ![t] = "done"]
    /\ ret' = [ret EXCEPT ![t] = call_tool(o).value]
    /\ hist' = [hist EXCEPT ![t] =
                   [h EXCEPT !.escaped = call_tool(o).escaped, !.cwd_after = d]]

\* ----------------------------------------------------------------- actions

\* A request arrives: the server starts a task that will run call_tool once
\* the event loop gets to it; the request's name and arguments are read then.
Submit(t) ==
    /\ pc[t] = "idle"
    /\ pc' = [pc EXCEPT ![t] = "pending"]
    /\ UNCHANGED validation
    /\ UNCHANGED <<cwd, workspace_dir, dirs, files, req, file_path, original_cwd,
                   results, stage, elapsed, children, exc, ret, hist, roots>>

\* call_tool with a name it does not know
UnknownTool(t, r) ==
    /\ pc[t] = "pending" /\ Turn(t)
    /\ req' = [req EXCEPT ![t] = r]
    /\ r.name \notin ToolNames
    /\ Return(t, Returns(Err("Unknown tool: ", NoPath, r.name)),
              [hist[t] EXCEPT !.cwd_before = cwd], cwd)
    /\ UNCHANGED validation
    /\ UNCHANGED <<cwd, workspace_dir, dirs, files, file_path, original_cwd,
                   results, stage, elapsed, children, exc, roots>>

\* call_tool with an argument map the operation's signature rejects:
\* self.compile_latex(**arguments) raises TypeError before the body runs.
BadArguments(t, r) ==
    /\ pc[t] = "pending" /\ Turn(t)
    /\ req' = [req EXCEPT ![t] = r]
    /\ r.name \in ToolNames
    /\ ~r.args_ok
    /\ Return(t, Raises("TypeError"),
              [hist[t] EXCEPT !.cwd_before = cwd, !.raised = "TypeError"], cwd)
    /\ UNCHANGED validation
    /\ UNCHANGED <<cwd, workspace_dir, dirs, files, file_path, original_cwd,
                   results, stage, elapsed, children, exc, roots>>

\* The file tools and the template tool: each returns its payload, or catches
\* what went wrong and returns {"error": "Failed to ...: <message>"}.
SimpleTool(t, r) ==
    /\ pc[t] = "pending" /\ Turn(t)
    /\ req' = [req EXCEPT ![t] = r]
    /\ r.name \in SimpleTools
    /\ r.args_ok
    /\ \E ok \in BOOLEAN :
          Return(t,
                 Returns(IF ok THEN "success" :> TRUE
                         ELSE Err("Failed: ", NoPath, "OSError")),
                 [hist[t] EXCEPT !.cwd_before = cwd,
                                 !.raised = IF ok THEN "" ELSE "OSError"],
                 cwd)
    /\ UNCHANGED validation
    /\ UNCHANGED <<cwd, workspace_dir, dirs, files, file_path, original_cwd,
                   results, stage, elapsed, children, exc, roots>>

\* compile_latex up to the first subprocess.run: the path, the three checks,
\* os.getcwd() and os.chdir(file_path.parent).
CompileStart(t, r) ==
    /\ pc[t] = "pending" /\ Turn(t)
    /\ req' = [req EXCEPT ![t] = r]
    /\ r.name = "compile_latex"
    /\ r.args_ok
    /\ LET fp == get_full_path(workspace_dir, r.filename, r.path)
           pre == Preconditions(exists(cwd, fp), Suffix(fp), r.engine)
           target == Locate(cwd, Parent(fp))
           h == [hist[t] EXCEPT !.cwd_before = cwd, !.found = exists(cwd, fp)]
       IN  /\ file_path' = [file_path EXCEPT ![t] = fp]
           /\ IF pre # "ok"
              THEN /\ Return(t, Returns(PreconditionError(pre, fp, r.engine)), h, cwd)
                   /\ UNCHANGED <<cwd, original_cwd, results, stage>>
              ELSE IF target \notin dirs
              THEN /\ Return(t,
                         Returns(Err("Compilation failed: ", NoPath, "FileNotFoundError")),
                         [h EXCEPT !.raised = "FileNotFoundError"], cwd)
                   /\ UNCHANGED <<cwd, original_cwd, results, stage>>
              ELSE /\ original_cwd' = [original_cwd EXCEPT ![t] = cwd]
                   /\ cwd' = target
                   /\ results' = [results EXCEPT ![t] = EmptyDict]
                   /\ stage' = [stage EXCEPT ![t] = "pass1"]
                   /\ pc' = [pc EXCEPT ![t] = "spawn"]
                   /\ hist' = [hist EXCEPT ![t] =
                                  [h EXCEPT !.src_dir = target,
                                            !.chdirs = <<target>>,
                                            !.bib_in_src = bib_files(<<>>, P(TRUE, target)) # {}]]
                   /\ UNCHANGED ret
    /\ UNCHANGED validation
    /\ UNCHANGED <<workspace_dir, dirs, files, elapsed, children, exc, roots>>

\* cmd = [engine, '-interaction=nonstopmode', file_path.name]
\* bib_cmd = ['bibtex', file_path.stem]
Command(t) ==
    IF stage[t] = "bib"
    THEN <<"bibtex", "a">>
    ELSE <<req[t].engine, "-interaction=nonstopmode", Last(file_path[t].comps)>>

\* subprocess.run starts the child process, in the working directory the
\* server has at that moment; the executable may be missing.
Spawn(t) ==
    /\ pc[t] = "spawn" /\ Turn(t)
    /\ \E found \in BOOLEAN :
          IF found
          THEN /\ children' = [children EXCEPT ![t] = @ \cup {stage[t]}]
               /\ elapsed' = [elapsed EXCEPT ![t] = 0]
               /\ pc' = [pc EXCEPT ![t] = "wait"]
               /\ hist' = [hist EXCEPT ![t].spawned =
                              Append(@, [cmd |-> Command(t), cwd |-> cwd])]
               /\ UNCHANGED exc
          ELSE /\ exc' = [exc EXCEPT ![t] = "FileNotFoundError"]
               /\ pc' = [pc EXCEPT ![t] = "finally"]
               /\ hist' = [hist EXCEPT ![t].raised = "FileNotFoundError"]
               /\ UNCHANGED <<children, elapsed>>
    /\ UNCHANGED validation
    /\ UNCHANGED <<cwd, workspace_dir, dirs, files, req, file_path, original_cwd,
                   results, stage, ret, roots>>

\* Time passes while subprocess.run waits for the child.
Tick(t) ==
    /\ pc[t] = "wait"
    /\ elapsed[t] < Timeout(stage[t])
    /\ elapsed' = [elapsed EXCEPT ![t] = Min(@ + TickStep, Timeout(stage[t]))]
    /\ UNCHANGED validation
    /\ UNCHANGED <<cwd, workspace_dir, dirs, files, pc, req, file_path, original_cwd,
                   results, stage, children, exc, ret, hist, roots>>

\* What compile_latex stores after the subprocess.run of stage st returned rc.
Stored(d, st, rc) ==
    CASE st = "pass1" ->
             Put(Put(Put(d, "latex_output", "stdout 1"), "latex_errors", "stderr 1"),
                 "latex_returncode", rc)
      [] st = "bib" ->
             Put(Put(d, "bibtex_output", "stdout bib"), "bibtex_errors", "stderr bib")
      [] OTHER -> Put(d, "latex_output_2", "stdout 2")

\* The child exits with code rc before the timeout (an engine may have written
\* the PDF into its working directory); compile_latex stores the outputs and
\* goes on: after the first pass to the bibliography stage if asked for and
\* *.bib files are found, after bibtex to the second pass, else to the end.
Exit(t, rc, pdf) ==
    /\ pc[t] = "wait" /\ Turn(t)
    /\ ~TimedOut(elapsed[t], Timeout(stage[t]))
    /\ children' = [children EXCEPT ![t] = @ \ {stage[t]}]
    /\ files' = IF pdf /\ stage[t] # "bib"
                THEN files \cup {Last(hist[t].spawned).cwd \o <<"a.pdf">>}
                ELSE files
    /\ results' = [results EXCEPT ![t] = Stored(@, stage[t], rc)]
    /\ hist' = [hist EXCEPT ![t].codes = Append(@, rc),
                            ![t].scanned = IF stage[t] = "pass1" /\ req[t].bibtex
                                           THEN Locate(cwd, Parent(file_path[t]))
                                           ELSE @]
    /\ elapsed' = [elapsed EXCEPT ![t] = 0]
    /\ IF stage[t] = "pass1"
       THEN IF req[t].bibtex /\ bib_files(cwd, Parent(file_path[t])) # {}
            THEN /\ stage' = [stage EXCEPT ![t] = "bib"]
                 /\ pc' = [pc EXCEPT ![t] = "spawn"]
            ELSE /\ pc' = [pc EXCEPT ![t] = "finish"]
                 /\ UNCHANGED stage
       ELSE IF stage[t] = "bib"
            THEN /\ stage' = [stage EXCEPT ![t] = "pass2"]
                 /\ pc' = [pc EXCEPT ![t] = "spawn"]
            ELSE /\ pc' = [pc EXCEPT ![t] = "finish"]
                 /\ UNCHANGED stage
    /\ UNCHANGED validation
    /\ UNCHANGED <<cwd, workspace_dir, dirs, req, file_path, original_cwd, exc, ret,
                   roots>>

\* The timeout passes first: subprocess.run kills the child and raises
\* TimeoutExpired, which leaves the try block.
Expire(t) ==
    /\ pc[t] = "wait" /\ Turn(t)
    /\ TimedOut(elapsed[t], Timeout(stage[t]))
    /\ children' = [children EXCEPT ![t] = KillChild(@, stage[t])]
    /\ exc' = [exc EXCEPT ![t] = "TimeoutExpired"]
    /\ pc' = [pc EXCEPT ![t] = "finally"]
    /\ elapsed' = [elapsed EXCEPT ![t] = 0]
    /\ hist' = [hist EXCEPT ![t].timed_out = TRUE, ![t].raised = "TimeoutExpired"]
    /\ UNCHANGED validation
    /\ UNCHANGED <<cwd, workspace_dir, dirs, files, req, file_path, original_cwd,
                   results, stage, ret, roots>>

\* results['success'] = result.returncode == 0, where result is the first
\* subprocess.run's (results['latex_returncode'] holds the same number).
success(d) == d["latex_returncode"] = 0

\* The end of the try block: the PDF's existence and the success flag.
Finish(t) ==
    /\ pc[t] = "finish" /\ Turn(t)
    /\ LET pdf_path == WithPdfSuffix(file_path[t])
           generated == exists(cwd, pdf_path)
           r1 == Put(results[t], "pdf_generated", generated)
           r2 == IF generated THEN Put(r1, "pdf_path", pdf_path) ELSE r1
       IN  /\ results' = [results EXCEPT ![t] = Put(r2, "success", success(results[t]))]
           /\ hist' = [hist EXCEPT ![t].pdf_tested = Locate(cwd, pdf_path)]
    /\ pc' = [pc EXCEPT ![t] = "finally"]
    /\ UNCHANGED validation
    /\ UNCHANGED <<cwd, workspace_dir, dirs, files, req, file_path, original_cwd,
                   stage, elapsed, children, exc, ret, roots>>

\* What compile_latex returns once the finally clause has run: restored says
\* whether os.chdir(original_cwd) went through, e the exception that left
\* the try block ("" for none), d the results.
CompileOutcome(restored, e, d) ==
    IF ~restored THEN Returns(Err("Compilation failed: ", NoPath, "OSError"))
    ELSE IF e = "TimeoutExpired" THEN Returns(Err("Compilation timed out", NoPath, ""))
    ELSE IF e # "" THEN Returns(Err("Compilation failed: ", NoPath, e))
    ELSE Returns(d)

\* finally: os.chdir(original_cwd), which the operating system may refuse
\* (the directory was removed or closed meanwhile); then the return or the
\* except clause that fits.
Finally(t) ==
    /\ pc[t] = "finally" /\ Turn(t)
    /\ \E restored \in BOOLEAN :
          /\ cwd' = IF restored THEN original_cwd[t] ELSE cwd
          /\ Return(t, CompileOutcome(restored, exc[t], results[t]),
                    [hist[t] EXCEPT !.chdirs = IF restored THEN Append(@, original_cwd[t]) ELSE @,
                                    !.raised = IF restored THEN @ ELSE "OSError"],
                    IF restored THEN original_cwd[t] ELSE cwd)
    /\ UNCHANGED validation
    /\ UNCHANGED <<workspace_dir, dirs, files, req, file_path, original_cwd, results,
                   stage, elapsed, children, exc, roots>>

resolve_skipped(d, p) == p

\* Path(new_workspace).resolve()
resolve(d, p) == P(TRUE, Locate(d, p))

\* change_workspace: resolve, mkdir(parents=True, exist_ok=True), which fails
\* when a file is in the way, and only then the assignment.
change_workspace(t, r) ==
    /\ pc[t] = "pending" /\ Turn(t)
    /\ req' = [req EXCEPT ![t] = r]
    /\ r.name = "change_workspace"
    /\ r.args_ok
    /\ LET new_path == resolve(cwd, r.new_workspace)
           made == Prefixes(new_path.comps) \cap files = {}
           h == [hist[t] EXCEPT !.cwd_before = cwd,
                                !.raised = IF made THEN "" ELSE "FileExistsError"]
       IN  IF made
           THEN /\ dirs' = dirs \cup Prefixes(Locate(cwd, new_path))
                /\ workspace_dir' = new_path
                /\ roots' = [roots EXCEPT !.changed = TRUE,
                                          !.last_ok = Locate(cwd, r.new_workspace),
                                          !.failed = FALSE, !.before = new_path]
                /\ Return(t,
                          Returns(("success" :> TRUE) @@ ("old_workspace" :> workspace_dir)
                                  @@ ("new_workspace" :> new_path)),
                          h, cwd)
           ELSE /\ roots' = [roots EXCEPT !.failed = TRUE, !.before = workspace_dir]
                /\ Return(t,
                          Returns(Err("Failed to change workspace: ", NoPath, "FileExistsError")),
                          h, cwd)
                /\ UNCHANGED <<dirs, workspace_dir>>
    /\ UNCHANGED validation
    /\ UNCHANGED <<cwd, files, file_path, original_cwd, results, stage, elapsed,
                   children, exc>>

\* The response is sent and the task ends.
Deliver(t) ==
    /\ pc[t] = "done"
    /\ pc' = [pc EXCEPT ![t] = "idle"]
    /\ req' = [req EXCEPT ![t] = NoRequest]
    /\ file_path' = [file_path EXCEPT ![t] = NoPath]
    /\ original_cwd' = [original_cwd EXCEPT ![t] = <<>>]
    /\ results' = [results EXCEPT ![t] = EmptyDict]
    /\ stage' = [stage EXCEPT ![t] = ""]
    /\ exc' = [exc EXCEPT ![t] = ""]
    /\ ret' = [ret EXCEPT ![t] = EmptyDict]
    /\ hist' = [hist EXCEPT ![t] = NoHist]
    /\ UNCHANGED validation
    /\ UNCHANGED <<cwd, workspace_dir, dirs, files, elapsed, children, roots>>

Next ==
    \E t \in Tasks :
        \/ Submit(t)
        \/ \E r \in Requests : UnknownTool(t, r)
        \/ \E r \in Requests : BadArguments(t, r)
        \/ \E r \in Requests : SimpleTool(t, r)
        \/ \E r \in Requests : CompileStart(t, r)
        \/ Spawn(t)
        \/ Tick(t)
        \/ \E rc \in ExitCodes, pdf \in BOOLEAN : Exit(t, rc, pdf)
        \/ Expire(t)
        \/ Finish(t)
        \/ Finally(t)
        \/ \E r \in Requests : change_workspace(t, r)
        \/ Deliver(t)

Spec == Init /\ [][Next]_vars

\* The interpreter runs a started call's next statement, time passes while it
\* waits, and the timeout of subprocess.run fires; a child process need never
\* exit, and a request need never come.
Progress(t) == Spawn(t) \/ Tick(t) \/ Expire(t) \/ Finish(t) \/ Finally(t)

FairSpec == Spec /\ \A t \in Tasks : WF_vars(Progress(t))

\* ----------------------------------------------------------- the validator

\* The longest document body drawn.
MaxBody == 3

\* What a document body is written from: single characters, and commands
\* that the regular expressions of lines 637-638 match as a whole.
RefTokens == {"\\ref{a}", "\\ref{b}"}

LabelTokens == {"\\label{a}"}

BodyTokens == {"{", "}", "\n", "$"} \cup RefTokens \cup LabelTokens

\* The three commands lines 621-623 search for.
Markers == <<"\\documentclass", "\\begin{document}", "\\end{document}">>

Bodies == UNION {[1..n -> BodyTokens] : n \in 0..MaxBody}

\* A document: the markers in m at their usual places, around the body.
Document(m, body) ==
    (IF 1 \in m THEN <<Markers[1]>> ELSE <<>>)
    \o (IF 2 \in m THEN <<Markers[2]>> ELSE <<>>)
    \o body
    \o (IF 3 \in m THEN <<Markers[3]>> ELSE <<>>)

Documents == {Document(m, body) : m \in SUBSET DOMAIN Markers, body \in Bodies}

\* The characters of a token that the loop of lines 607-615 and the count
\* of line 633 tell apart; "c" is any other character.
Chars(tok) ==
    IF tok \in {"{", "}", "\n", "$"} THEN <<tok>>
    ELSE IF tok = "\\documentclass" THEN <<"c">>
    ELSE <<"c", "{", "c", "}">>

RECURSIVE Text(_)
\* The document as the string of its characters.
Text(c) == IF c = <<>> THEN <<>> ELSE Chars(Head(c)) \o Text(Tail(c))

RECURSIVE split(_)
\* content.split('\n')
split(s) ==
    IF \A k \in DOMAIN s : s[k] # "\n" THEN <<s>>
    ELSE LET k == CHOOSE k \in DOMAIN s : s[k] = "\n" /\ \A j \in 1..(k - 1) : s[j] # "\n"
         IN  <<SubSeq(s, 1, k - 1)>> \o split(SubSeq(s, k + 1, Len(s)))

\* f"Line {i}: Unmatched closing brace"
ClosingError(i) == [text |-> "Line {i}: Unmatched closing brace", n |-> i]

\* f"Unmatched opening braces: {brace_count}"
OpeningError(brace_count) ==
    [text |-> "Unmatched opening braces: {brace_count}", n |-> brace_count]

\* The texts of lines 626, 628 and 630.
MissingTexts ==
    <<"Missing \\documentclass command", "Missing \\begin{document}",
      "Missing \\end{document}">>

MissingError(k) == [text |-> MissingTexts[k], n |-> 0]

DollarWarning == [text |-> "Unmatched math mode delimiters ($)", refs |-> <<>>]

\* f"Potentially undefined references: {', '.join(undefined_refs)}"
RefWarning(undefined_refs) ==
    [text |-> "Potentially undefined references: ", refs |-> undefined_refs]

BraceStepNoReset(st, char, i) ==
    IF char = "{" THEN [st EXCEPT !.brace_count = @ + 1]
    ELSE IF char = "}"
         THEN IF st.brace_count - 1 < 0
              THEN [brace_count |-> st.brace_count - 1,
                    errors |-> Append(st.errors, ClosingError(i))]
              ELSE [st EXCEPT !.brace_count = @ - 1]
         ELSE st

\* The body of the inner loop for one character of line i.
BraceStep(st, char, i) ==
    IF char = "{" THEN [st EXCEPT !.brace_count = @ + 1]
    ELSE IF char = "}"
         THEN IF st.brace_count - 1 < 0
              THEN [brace_count |-> 0, errors |-> Append(st.errors, ClosingError(i))]
              ELSE [st EXCEPT !.brace_count = @ - 1]
         ELSE st

RECURSIVE ScanLine(_, _, _)
\* for char in line
ScanLine(st, line, i) ==
    IF line = <<>> THEN st ELSE ScanLine(BraceStep(st, Head(line), i), Tail(line), i)

RECURSIVE ScanLines(_, _, _)
\* for i, line in enumerate(lines, 1)
ScanLines(st, lines, i) ==
    IF lines = <<>> THEN st
    ELSE ScanLines(ScanLine(st, Head(lines), i), Tail(lines), i + 1)

\* brace_count and errors after the loops over the text s.
BraceScan(s) == ScanLines([brace_count |-> 0, errors |-> <<>>], split(s), 1)

UnclosedFromZero(st) ==
    IF st.brace_count >= 0 THEN Append(st.errors, OpeningError(st.brace_count))
    ELSE st.errors

\* if brace_count > 0: errors.append(...)
Unclosed(st) ==
    IF st.brace_count > 0 THEN Append(st.errors, OpeningError(st.brace_count))
    ELSE st.errors

match(marker, c) == c # <<>> /\ c[1] = marker

\* bool(re.search(marker, content))
search(marker, c) == \E k \in DOMAIN c : c[k] = marker

\* The text between the braces of a \ref or \label command.
Target(tok) == IF tok \in {"\\ref{a}", "\\label{a}"} THEN "a" ELSE "b"

\* re.findall(r'\\ref\{([^}]+)\}', content), and the same for \label
findall(commands, c) ==
    LET found == SelectSeq(c, LAMBDA tok : tok \in commands)
    IN  [k \in DOMAIN found |-> Target(found[k])]

\* content.count('$')
count(s, char) == Cardinality({k \in DOMAIN s : s[k] = char})

\* The three appends of lines 625-630.
StructureErrors(has_documentclass, has_begin_document, has_end_document) ==
    (IF ~has_documentclass THEN <<MissingError(1)>> ELSE <<>>)
    \o (IF ~has_begin_document THEN <<MissingError(2)>> ELSE <<>>)
    \o (IF ~has_end_document THEN <<MissingError(3)>> ELSE <<>>)

structure_complete_without_end(has_documentclass, has_begin_document, has_end_document) ==
    has_documentclass /\ has_begin_document

\* has_documentclass and has_begin_document and has_end_document
structure_complete(has_documentclass, has_begin_document, has_end_document) ==
    has_documentclass /\ has_begin_document /\ has_end_document

is_valid_without_warnings(errors, warnings) == Len(errors) = 0 /\ Len(warnings) = 0

\* len(errors) == 0
is_valid(errors, warnings) == Len(errors) = 0

\* Lines 600-651: the report for the text read from the file.
validate(c) ==
    LET s == Text(c)
        braces == Unclosed(BraceScan(s))
        has_documentclass == search(Markers[1], c)
        has_begin_document == search(Markers[2], c)
        has_end_document == search(Markers[3], c)
        errors == braces \o StructureErrors(has_documentclass, has_begin_document,
                                            has_end_document)
        dollars == IF count(s, "$") > 0 /\ count(s, "$") % 2 # 0
                   THEN <<DollarWarning>> ELSE <<>>
        refs == findall(RefTokens, c)
        labels == findall(LabelTokens, c)
        undefined_refs ==
            SelectSeq(refs, LAMBDA ref : ~\E k \in DOMAIN labels : labels[k] = ref)
        warnings == dollars \o (IF undefined_refs # <<>>
                                THEN <<RefWarning(undefined_refs)>> ELSE <<>>)
    IN  Put(Put(Put(Put(Put(EmptyDict, "success", TRUE),
                        "errors", errors),
                    "warnings", warnings),
                "is_valid", is_valid(errors, warnings)),
            "structure_complete",
            structure_complete(has_documentclass, has_begin_document, has_end_document))

\* validate_latex_syntax for a file that is there or not, holding the text c.
validate_latex_syntax(found, c) ==
    IF ~found THEN Err("File does not exist: ", NoPath, "") ELSE validate(c)

\* One call of validate_latex_syntax, from the test of the file to the return.
Validate ==
    /\ report = NoReport
    /\ \E found \in BOOLEAN : report' = validate_latex_syntax(found, content)
    /\ UNCHANGED <<server, content>>

\* A server at rest, with a document to validate.
ValidatorInit ==
    /\ cwd = StartupCwd
    /\ workspace_dir = P(TRUE, <<"h", "w">>)
    /\ dirs = Prefixes(<<"h", "w">>)
    /\ files = {<<"h", "w", "a.tex">>}
    /\ pc = [t \in Tasks |-> "idle"]
    /\ req = [t \in Tasks |-> NoRequest]
    /\ file_path = [t \in Tasks |-> NoPath]
    /\ original_cwd = [t \in Tasks |-> <<>>]
    /\ results = [t \in Tasks |-> EmptyDict]
    /\ stage = [t \in Tasks |-> ""]
    /\ elapsed = [t \in Tasks |-> 0]
    /\ children = [t \in Tasks |-> {}]
    /\ exc = [t \in Tasks |-> ""]
    /\ ret = [t \in Tasks |-> EmptyDict]
    /\ hist = [t \in Tasks |-> NoHist]
    /\ roots = [startup |-> workspace_dir, changed |-> FALSE, last_ok |-> <<>>,
                failed |-> FALSE, before |-> workspace_dir]
    /\ content \in Documents
    /\ report = NoReport

ValidatorNext == Validate

ValidatorSpec == ValidatorInit /\ [][ValidatorNext]_vars

\* -------------------------------------------------------------- properties

Done(t) == pc[t] = "done"

\* Task t's call is a compile_latex call whose body ran.
Compiles(t) == pc[t] \notin {"idle", "pending"} /\ req[t].name = "compile_latex" /\ req[t].args_ok

\* Between os.chdir(file_path.parent) and the finally clause.
InWindow(t) == pc[t] \in {"spawn", "wait", "finish", "finally"}

ErrorMsg(t) == IF Has(ret[t], "error") THEN ret[t]["error"].msg ELSE ""

\* compile_latex returned its results dictionary.
ReturnedResults(t) == Done(t) /\ Compiles(t) /\ Has(ret[t], "success")

Commands(t) == [i \in DOMAIN hist[t].spawned |-> hist[t].spawned[i].cmd]

EngineCommand(t) ==
    <<req[t].engine, "-interaction=nonstopmode", Last(file_path[t].comps)>>

BibRan(t) == \E i \in DOMAIN hist[t].spawned : hist[t].spawned[i].cmd[1] = "bibtex"

\* The supported set as the specification lists it.
SpecEngines == {"pdflatex", "lualatex", "xelatex", "bibtex", "biber"}

IsTex(t) == Suffix(file_path[t]) = ".tex"

\* C1: after every compile_latex call, whatever its exit path, the working
\* directory is the one the process had before the call.
C1_CwdRestored ==
    \A t \in Tasks :
        Done(t) /\ Compiles(t) => hist[t].cwd_after = hist[t].cwd_before

\* C2: while a compile_latex call is between its chdir and its restore the
\* working directory is its own source directory, and every process it
\* spawned was started there, whatever other requests are in flight.
C2_NoInterleaving ==
    \A t \in Tasks :
        /\ InWindow(t) => cwd = hist[t].src_dir
        /\ \A i \in DOMAIN hist[t].spawned : hist[t].spawned[i].cwd = hist[t].src_dir

\* A request waits for its bibtex process, started in its own directory,
\* while another request is in flight.
C2_Witness ==
    \E t \in Tasks, s \in Tasks :
        /\ s # t /\ pc[s] = "pending"
        /\ pc[t] = "wait" /\ stage[t] = "bib"
        /\ Len(hist[t].spawned) = 2
        /\ hist[t].spawned[2].cwd = <<"h", "w">>
        /\ original_cwd[t] = <<"h">>

\* C3: the error returned is that of the first failing check in the order
\* exists, .tex extension, supported engine.
C3_PreconditionOrder ==
    \A t \in Tasks :
        Done(t) /\ Compiles(t) =>
            /\ ~hist[t].found => ErrorMsg(t) = "File does not exist: "
            /\ hist[t].found /\ ~IsTex(t) => ErrorMsg(t) = "File must have .tex extension"
            /\ hist[t].found /\ IsTex(t) /\ req[t].engine \notin SpecEngines =>
                   ErrorMsg(t) = "Unsupported engine: "

\* A missing file with the wrong extension and an unsupported engine: not found.
C3_Witness ==
    \E t \in Tasks :
        /\ Done(t) /\ Compiles(t)
        /\ ~hist[t].found /\ ~IsTex(t) /\ req[t].engine \notin SpecEngines
        /\ ErrorMsg(t) = "File does not exist: "

\* C4: a compile_latex call with a failing precondition returns an error and
\* has neither spawned a process nor changed the working directory.
C4_RejectedBeforeSpawn ==
    \A t \in Tasks :
        Compiles(t) /\ (~hist[t].found \/ ~IsTex(t) \/ req[t].engine \notin SpecEngines) =>
            /\ Done(t) /\ Has(ret[t], "error")
            /\ hist[t].spawned = <<>>
            /\ hist[t].chdirs = <<>>
            /\ hist[t].cwd_after = hist[t].cwd_before

\* An existing .tex file with an engine outside the set.
C4_Witness ==
    \E t \in Tasks :
        /\ Done(t) /\ Compiles(t)
        /\ hist[t].found /\ IsTex(t) /\ req[t].engine = "latexmk"
        /\ ErrorMsg(t) = "Unsupported engine: "
        /\ hist[t].spawned = <<>>

\* The exit code of the final engine pass: the second engine invocation's
\* when the bibliography stage ran, else the only one's.
FinalCode(t) ==
    IF Len(hist[t].codes) = 3 THEN hist[t].codes[3] ELSE hist[t].codes[1]

\* C5: the success flag of a returned result is true iff the final engine
\* pass exited with code 0.
C5_SuccessIsFinalPass ==
    \A t \in Tasks :
        ReturnedResults(t) => (ret[t]["success"] <=> FinalCode(t) = 0)

\* C6: a call that returns its results spawned [engine, bibtex, engine] when
\* the flag is set and the source directory holds a *.bib file, [engine]
\* otherwise, and its result has bibtex_output iff bibtex ran.
C6_StageSequence ==
    \A t \in Tasks :
        ReturnedResults(t) =>
            /\ Commands(t) =
                   IF req[t].bibtex /\ hist[t].bib_in_src
                   THEN <<EngineCommand(t), <<"bibtex", "a">>, EngineCommand(t)>>
                   ELSE <<EngineCommand(t)>>
            /\ Has(ret[t], "bibtex_output") <=> BibRan(t)

\* C7: a call one of whose stages timed out has no child process left, has
\* started no later stage and returns the timeout error and nothing else.
C7_TimeoutError ==
    \A t \in Tasks :
        Done(t) /\ Compiles(t) /\ hist[t].timed_out =>
            /\ children[t] = {}
            /\ Len(hist[t].spawned) = Len(hist[t].codes) + 1
            /\ DOMAIN ret[t] = {"error"}
            /\ ErrorMsg(t) = "Compilation timed out"

\* C8: every call_tool invocation returns a dictionary with the payload or an
\* "error"; nothing escapes; a failure of compile_latex other than a timeout
\* is returned with the underlying message.
C8_AlwaysAResult ==
    \A t \in Tasks :
        Done(t) =>
            /\ ~hist[t].escaped
            /\ Has(ret[t], "error") \/ Has(ret[t], "success")
            /\ hist[t].raised \notin {"", "TimeoutExpired"} =>
                   /\ Has(ret[t], "error")
                   /\ ret[t]["error"].cause = hist[t].raised

\* The restore of the working directory failed, and the call returned that.
C8_Witness ==
    \E t \in Tasks :
        /\ Done(t) /\ Compiles(t)
        /\ hist[t].cwd_after # hist[t].cwd_before
        /\ hist[t].raised = "OSError"
        /\ ErrorMsg(t) = "Compilation failed: "
        /\ ret[t]["error"].cause = "OSError"

\* C9: a compile_latex call never waits longer than 60 seconds for an engine
\* pass or 30 seconds for the bibliography pass, spawns at most three
\* processes, and eventually returns.
C9_EventuallyReturns ==
    /\ [](\A t \in Tasks :
            /\ Len(hist[t].spawned) <= 3
            /\ pc[t] = "wait" => elapsed[t] <= (IF stage[t] = "bib" THEN 30 ELSE 60))
    /\ \A t \in Tasks : InWindow(t) ~> Done(t)

\* A call whose third process ran into the timeout has returned.
C9_Witness ==
    \E t \in Tasks :
        /\ Done(t) /\ hist[t].timed_out
        /\ Len(hist[t].spawned) = 3
        /\ ErrorMsg(t) = "Compilation timed out"

RelativeHints == {h \in Hints : ~h.abs}

RelativeFilenames == {f \in Filenames : ~f.abs}

Under(root, p) == p.abs /\ IsPrefix(root, p.comps)

\* C10 as stated: after a successful change_workspace(p) every filename
\* resolves under p when the path hint is absent or relative.
C10_EveryFilenameUnderRoot ==
    roots.changed =>
        \A f \in Filenames, h \in RelativeHints :
            Under(roots.last_ok, get_full_path(workspace_dir, f, h))

\* C10 amended: after a successful change_workspace(p) the directory p exists
\* and every relative filename resolves under p when the path hint is absent
\* or relative; before any change the root is the startup one; a failed
\* change_workspace leaves the root as it was.
C10_RelativeFilenameUnderRoot ==
    /\ roots.changed =>
           /\ roots.last_ok \in dirs
           /\ \A f \in RelativeFilenames, h \in RelativeHints :
                  Under(roots.last_ok, get_full_path(workspace_dir, f, h))
    /\ ~roots.changed => workspace_dir = roots.startup
    /\ roots.failed => workspace_dir = roots.before

\* A change to a new relative directory went through and a later change to a
\* path that is a file failed.
C10_Witness ==
    /\ roots.changed /\ roots.failed
    /\ roots.last_ok = <<"h", "n">>
    /\ workspace_dir = P(TRUE, <<"h", "n">>)
    /\ \E t \in Tasks :
          Done(t) /\ req[t].name = "change_workspace" /\ Has(ret[t], "error")

\* ------------------------------------------------ properties: the validator

\* validate_latex_syntax returned a validation report.
Reported == Has(report, "errors")

\* The closing braces less the opening braces among the first k characters.
Excess(s, k) ==
    Cardinality({j \in 1..k : s[j] = "}"}) - Cardinality({j \in 1..k : s[j] = "{"})

\* No prefix has more closing than opening braces, and the totals are equal.
Balanced(s) == (\A k \in 0..Len(s) : Excess(s, k) <= 0) /\ Excess(s, Len(s)) = 0

\* The k-th structural marker occurs in the document.
Present(k) == \E j \in DOMAIN content : content[j] = Markers[k]

\* The targets of the document's commands of one kind.
TargetsOf(commands) ==
    {Target(content[j]) : j \in {i \in DOMAIN content : content[i] \in commands}}

\* The \ref targets no \label declares.
Undeclared == TargetsOf(RefTokens) \ TargetsOf(LabelTokens)

WellFormed ==
    /\ Balanced(Text(content))
    /\ \A k \in DOMAIN Markers : Present(k)
    /\ Undeclared = {}

\* C11: for a document with balanced braces, all three structural markers
\* and every \ref target declared by a \label, the report has an empty
\* errors list and is_valid true.
C11_WellFormedIsValid ==
    Reported /\ WellFormed => report["errors"] = <<>> /\ report["is_valid"] = TRUE

\* Such a document was validated: a reference and its label on two lines
\* between the markers, each command with its pair of braces.
C11_Witness ==
    /\ Reported /\ WellFormed
    /\ \E i, j, k \in DOMAIN content :
          content[i] = "\\ref{a}" /\ content[j] = "\n" /\ content[k] = "\\label{a}"
    /\ report["is_valid"] = TRUE

\* The closing braces of s that no earlier opening brace matches: those at
\* which the excess of closing braces exceeds that of every shorter prefix.
StrayClosers(s) ==
    {j \in DOMAIN s : s[j] = "}" /\ \A k \in 0..(j - 1) : Excess(s, j) > Excess(s, k)}

\* The opening braces of s that no later closing brace matches: those from
\* which every stretch of s holds more opening than closing braces.
UnclosedOpeners(s) ==
    {i \in DOMAIN s : s[i] = "{" /\ \A j \in i..Len(s) : Excess(s, j) < Excess(s, i - 1)}

\* The 1-based line of the j-th character.
LineOf(s, j) == 1 + Cardinality({k \in 1..(j - 1) : s[k] = "\n"})

\* The errors of the report whose text is one of texts, in order.
ErrorsOf(texts) == SelectSeq(report["errors"], LAMBDA e : e.text \in texts)

ClosingErrors == ErrorsOf({ClosingError(0).text})

OpeningErrors == ErrorsOf({OpeningError(0).text})

BraceErrors == ErrorsOf({ClosingError(0).text, OpeningError(0).text})

\* C12: the scan emits one "unmatched closing brace" error, citing its line,
\* per closing brace met while the counter is zero, that is per closing brace
\* no opening brace matches; the counter is never negative when the next
\* character is read; and a document balanced but for one extra closing brace
\* on line N gets exactly one brace error, which cites line N.
C12_BraceScanDamping ==
    Reported =>
        LET s == Text(content)
        IN  /\ \A n \in 1..(Len(s) + 1) :
                  Cardinality({k \in DOMAIN ClosingErrors : ClosingErrors[k].n = n})
                  = Cardinality({j \in StrayClosers(s) : LineOf(s, j) = n})
            /\ \A k \in 0..Len(s) : BraceScan(SubSeq(s, 1, k)).brace_count >= 0
            /\ Cardinality(StrayClosers(s)) = 1 /\ UnclosedOpeners(s) = {}
               => \E j \in StrayClosers(s) : BraceErrors = <<ClosingError(LineOf(s, j))>>

\* A document with one extra closing brace on its second line and balanced
\* braces after it was validated.
C12_Witness ==
    /\ Reported
    /\ LET s == Text(content)
       IN  /\ UnclosedOpeners(s) = {}
           /\ \E j \in DOMAIN s :
                 /\ StrayClosers(s) = {j} /\ LineOf(s, j) = 2
                 /\ \E i \in (j + 1)..Len(s) : s[i] = "{"
    /\ BraceErrors = <<ClosingError(2)>>

MissingErrors == ErrorsOf({MissingTexts[k] : k \in DOMAIN MissingTexts})

\* The markers the document lacks, in the order document-class,
\* document-begin, document-end.
Absent == SelectSeq(<<1, 2, 3>>, LAMBDA k : ~Present(k))

\* C13: each absent marker adds exactly one error naming it, in the order
\* document-class, document-begin, document-end, after all brace errors;
\* structure_complete is true iff the three markers are present, whatever
\* other errors exist; a document missing only the end marker gets exactly
\* one missing-marker error and structure_complete false.
C13_MarkersIndependent ==
    Reported =>
        LET errors == report["errors"]
        IN  /\ MissingErrors = [i \in DOMAIN Absent |-> MissingError(Absent[i])]
            /\ \A i, j \in DOMAIN errors :
                  errors[i] \in {BraceErrors[k] : k \in DOMAIN BraceErrors}
                  /\ errors[j] \in {MissingErrors[k] : k \in DOMAIN MissingErrors}
                  => i < j
            /\ report["structure_complete"] = (\A k \in DOMAIN Markers : Present(k))
            /\ Absent = <<3>>
               => MissingErrors = <<MissingError(3)>> /\ report["structure_complete"] = FALSE

\* A document missing only the end marker, with brace errors of both kinds,
\* was validated.
C13_Witness ==
    /\ Reported
    /\ Absent = <<3>>
    /\ ClosingErrors # <<>> /\ OpeningErrors # <<>>
    /\ Len(MissingErrors) = 1
    /\ report["structure_complete"] = FALSE

\* The warnings of the report whose text is the given one, in order.
WarningsOf(text) == SelectSeq(report["warnings"], LAMBDA w : w.text = text)

DollarWarnings == WarningsOf(DollarWarning.text)

RefWarnings == WarningsOf(RefWarning(<<>>).text)

\* The document holds an odd number of '$' characters.
OddDollars == Cardinality({j \in DOMAIN content : content[j] = "$"}) % 2 = 1

\* C14: is_valid is true iff the errors list is empty, whatever the warnings
\* list holds; an odd number of '$' and an undeclared reference each add a
\* warning, and the errors list holds brace and missing-marker errors only.
C14_ValidIffNoErrors ==
    Reported =>
        /\ report["is_valid"] = (report["errors"] = <<>>)
        /\ OddDollars => DollarWarnings # <<>>
        /\ Undeclared # {} => RefWarnings # <<>>
        /\ Len(report["errors"]) = Len(BraceErrors) + Len(MissingErrors)

\* A document with an odd number of '$' and an undeclared reference was
\* reported valid: both warnings, no error.
C14_Witness ==
    /\ Reported
    /\ OddDollars /\ Undeclared # {}
    /\ DollarWarnings # <<>> /\ RefWarnings # <<>>
    /\ report["errors"] = <<>> /\ report["is_valid"] = TRUE

\* C15: a report holds at most one reference warning; it is there iff some
\* \ref target has no \label with the same target in the document, and it
\* lists the undeclared targets, each one once however many times it is
\* referenced.
C15_UndeclaredListedOnce ==
    Reported =>
        /\ Len(RefWarnings) <= 1
        /\ (RefWarnings # <<>>) = (Undeclared # {})
        /\ RefWarnings # <<>>
           => LET listed == RefWarnings[1].refs
              IN  /\ {listed[k] : k \in DOMAIN listed} = Undeclared
                  /\ Len(listed) = Cardinality(Undeclared)

\* C16: when the counter is positive after the scan, the errors list holds
\* exactly one aggregate error, and its count is the number of opening
\* braces left unclosed, stray closing braces before them not counted; when
\* the counter is zero at the end there is no aggregate error.
C16_UnclosedOpeningCount ==
    Reported =>
        LET s == Text(content)
            left == Cardinality(UnclosedOpeners(s))
        IN  /\ BraceScan(s).brace_count = left
            /\ left > 0 => OpeningErrors = <<OpeningError(left)>>
            /\ left = 0 => OpeningErrors = <<>>

\* A document with a stray closing brace and then two opening braces left
\* unclosed was validated.
C16_Witness ==
    /\ Reported
    /\ LET s == Text(content)
       IN  \E j \in StrayClosers(s) :
              Cardinality({i \in UnclosedOpeners(s) : i > j}) = 2
    /\ OpeningErrors = <<OpeningError(2)>>

\* ------------------------------------------------------ properties: C17

\* C17: for every filename, every path hint and the root the server holds,
\* the path-resolution helper returns an absolute path, which lies under the
\* root when the hint is absent or relative; so the directory compile_latex
\* scanned for bibliography files and the directory of the artifact it
\* tested are the source directory it switched to.
C17_SameLocations ==
    /\ \A f \in Filenames, h \in Hints :
          LET fp == get_full_path(workspace_dir, f, h)
          IN  fp.abs /\ (~h.abs => IsPrefix(workspace_dir.comps, fp.comps))
    /\ \A t \in Tasks :
          /\ hist[t].scanned # <<>> => hist[t].scanned = hist[t].src_dir
          /\ hist[t].pdf_tested # <<>> => Front(hist[t].pdf_tested) = hist[t].src_dir

====
